---- MODULE Spec2Model ----
(***************************************************************************)
(* Model of intermat's InterfaceCombi (src/intermat/main.py): the          *)
(* constructor's displacement grid, make_interface's lead partition and    *)
(* the generate() sweep with its two-direction build and selection.        *)
(*                                                                         *)
(* Real numbers are fixed-point integers: One stands for 1.0, so a value   *)
(* v stands for v / One, and str() of a number is its fixed-point numeral. *)
(***************************************************************************)
EXTENDS Integers, Sequences, FiniteSets, TLC

VARIABLES
    cfg,                    \* the constructor arguments kept on self
    xy,                     \* self.xy, the displacement grid (updated in place)
    generated_interfaces,   \* self.generated_interfaces
    pc,                     \* where the caller / generate() stands
    idx,                    \* the eight loop indices of generate()
    gen_intfs,              \* generate()'s local list of records
    loc,                    \* generate()'s locals for the current grid point
    err,                    \* the exception that left generate(), or "none"
    zsl,                    \* what the lattice matcher has answered so far
    shares_coords,          \* does Atoms.to_dict read the array frac_coords exposes
    runs,                   \* what each finished generate() returned
    arg,                    \* input of a function applied on its own
    res                     \* its result

vars == <<cfg, xy, generated_interfaces, pc, idx, gen_intfs, loc, err, zsl,
          shares_coords, runs, arg, res>>

-----------------------------------------------------------------------------
(* Bounds of the model *)

Resolution == 4     \* decimal digits carried by the fixed-point numbers
MaxMats == 2        \* longest subs_mats / film_mats list
MaxVals == 2        \* longest list on a sweep axis
MaxSites == 2       \* longest coordinate list given to the lead partition
MaxStep == 60       \* largest displacement step tried, in 24ths of 1.0

(* Program constants *)

rount_digit == 3    \* main.py:38

One == 10 ^ Resolution
Half == One \div 2
RoundUnit == 10 ^ (Resolution - rount_digit)

-----------------------------------------------------------------------------
(* Arithmetic *)

Abs(x) == IF x < 0 THEN -x ELSE x

\* ceil(a / b) for b > 0, as math.ceil of the quotient
CeilDiv(a, b) == IF a % b = 0 THEN a \div b ELSE (a \div b) + 1

\* round(x, rount_digit): nearest multiple of RoundUnit, ties to the even one
Round(x) ==
    LET q == x \div RoundUnit
        r == x % RoundUnit
    IN  IF 2 * r < RoundUnit THEN q * RoundUnit
        ELSE IF 2 * r > RoundUnit THEN (q + 1) * RoundUnit
        ELSE IF q % 2 = 0 THEN q * RoundUnit ELSE (q + 1) * RoundUnit

RECURSIVE Product(_)
Product(s) == IF s = <<>> THEN 1 ELSE Head(s) * Product(Tail(s))

-----------------------------------------------------------------------------
(* The displacement grid of __init__ *)

\* MGridAxis with the number of values rounded down
MGridAxisFloor(start, stop, step) ==
    [k \in 1..((stop - start) \div step) |-> start + (k - 1) * step]

\* np.mgrid[start:stop:step] on one axis: ceil((stop-start)/step) values
\* start + k*step
MGridAxis(start, stop, step) ==
    [k \in 1..CeilDiv(stop - start, step) |-> start + (k - 1) * step]

\* np.vstack((X.flatten(), Y.flatten())).T : x is the slow index
DisplacementGrid(d) ==
    IF d = 0 THEN << <<0, 0>> >>
    ELSE LET ax == MGridAxis(d - Half, Half + d, d)
             n == Len(ax)
         IN  [k \in 1..(n * n) |-> <<ax[((k - 1) \div n) + 1],
                                     ax[((k - 1) % n) + 1]>>]

-----------------------------------------------------------------------------
(* The lead partition of make_interface *)

\* coords[mask]: the elements a boolean mask keeps, in order
RECURSIVE Select(_, _)
Select(s, mask) ==
    IF s = <<>> THEN <<>>
    ELSE (IF mask[1] THEN <<Head(s)>> ELSE <<>>)
         \o Select(Tail(s), Tail(mask))

MaskLeft(sites, r) == [k \in 1..Len(sites) |-> sites[k].c[1] < r]

MaskRight(sites, r) == [k \in 1..Len(sites) |-> sites[k].c[1] > Half + r]

\* MaskMiddle with both comparisons strict
MaskMiddleOpen(sites, r) ==
    [k \in 1..Len(sites) |-> sites[k].c[1] < Half + r /\ sites[k].c[1] > r]

MaskMiddle(sites, r) ==
    [k \in 1..Len(sites) |-> sites[k].c[1] <= Half + r /\ sites[k].c[1] >= r]

\* lines 262-319: the three region structures, and whether the count check
\* raises ValueError("Check fractional tolerance", ...)
LeadPartition(sites, r) ==
    LET l == Select(sites, MaskLeft(sites, r))
        rt == Select(sites, MaskRight(sites, r))
        m == Select(sites, MaskMiddle(sites, r))
    IN  [atoms_left |-> l, atoms_right |-> rt, atoms_middle |-> m,
         raises |-> Len(rt) + Len(l) + Len(m) # Len(sites)]

-----------------------------------------------------------------------------
(* Values a caller can pass to the constructor *)

\* film_mats / subs_mats hold structures; a structure is named by a number.
\* Structures of the same parity have the same in-plane lattice.
SubsPool == [k \in 1..(MaxMats + 1) |-> 2 * k - 1]
FilmPool == [k \in 1..(MaxMats + 1) |-> 2 * k]
SubsIdPool == <<"s1", "s2", "s3", "s4">>
FilmIdPool == <<"f1", "f2", "f3", "f4">>

LatticeClass(m) == m % 2
NumAtoms(m) == IF m % 2 = 1 THEN 1 ELSE 2
Element(m) == IF m % 2 = 1 THEN "Al" ELSE "Cu"

Prefix(s, n) == [k \in 1..n |-> s[k]]

\* n values on a sweep axis; neighbours are closer than the rounding unit
SweepVals(base, n) == [k \in 1..n |-> base + (k - 1) * ((2 * RoundUnit) \div 5)]

Steps == {0, Half, One, (3 * One) \div 4 + RoundUnit \div 2}
LeadRatios == {-1, (3 * One) \div 10}      \* -1 stands for None

Default ==
    [subs_mats |-> <<1>>, film_mats |-> <<2>>,
     subs_ids |-> <<>>, film_ids |-> <<>>,
     disp_intvl |-> 0,
     seperations |-> <<(5 * One) \div 2>>,
     film_indices |-> << <<0, 0, 1>> >>,
     subs_indices |-> << <<0, 0, 1>> >>,
     film_thicknesses |-> <<8 * One>>,
     subs_thicknesses |-> <<8 * One>>,
     lead_ratio |-> -1,
     rotate_xz |-> FALSE]

\* material lists of every length, with and without ids
MatCfgs ==
    { [Default EXCEPT
          !.subs_mats = Prefix(SubsPool, ns),
          !.film_mats = Prefix(FilmPool, nf),
          !.subs_ids = IF si THEN Prefix(SubsIdPool, ns) ELSE <<>>,
          !.film_ids = IF fi THEN Prefix(FilmIdPool, nf) ELSE <<>>] :
        ns \in 1..MaxMats, nf \in 1..MaxMats, si \in BOOLEAN, fi \in BOOLEAN }

\* sweeps over separation and thicknesses
SweepCfgs ==
    { [Default EXCEPT
          !.seperations = SweepVals((5 * One) \div 2, nv[1]),
          !.film_thicknesses = SweepVals(8 * One, nv[2]),
          !.subs_thicknesses = SweepVals(8 * One, nv[3])] :
        nv \in [1..3 -> 1..MaxVals] }

\* displacement scans, with and without the transport options
DispCfgs ==
    { [Default EXCEPT !.disp_intvl = d, !.lead_ratio = lr, !.rotate_xz = rot] :
        d \in Steps, lr \in LeadRatios, rot \in BOOLEAN }

\* a sweep over two film orientations
IndexSweep == [Default EXCEPT !.film_indices = << <<0, 0, 1>>, <<1, 1, 0>> >>]

Cfgs == MatCfgs \cup SweepCfgs \cup DispCfgs \cup {IndexSweep}

-----------------------------------------------------------------------------
(* Numbers computed from a match: lengths are integers, ratios are fractions *)

\* lengths <<|a1|, |a2|, |b1|, |b2|>> of the substrate and film superlattice
\* vectors of a match: no mismatch, a mismatch of 1 on either axis, and a
\* mismatch of -1/2 on either axis
MatchLens ==
    { <<1, 1, 1, 1>>, <<1, 1, 2, 1>>, <<1, 1, 1, 2>>,
      <<2, 2, 1, 2>>, <<2, 2, 2, 1>> }

\* what the matcher can answer: no match, or a list whose first match has
\* vectors of these lengths
Matches ==
    {<<>>} \cup
    { << [sub_sl_vecs |-> <<v[1], v[2]>>, film_sl_vecs |-> <<v[3], v[4]>>] >> :
        v \in MatchLens }

Frac(n, d) == [n |-> n, d |-> d]
FAbs(x) == Frac(Abs(x.n), x.d)
FGreater(x, y) == x.n * y.d > y.n * x.d
\* Python's max(a, b): b when b > a, else a
PyMax(a, b) == IF FGreater(b, a) THEN b ELSE a

\* lines 161-162: |b| / |a| - 1
Mismatch(b, a) == Frac(b - a, a)

\* lines 444-446 / 460-462
MaxMis(info) == PyMax(FAbs(info.mismatch_u), FAbs(info.mismatch_v))

-----------------------------------------------------------------------------
(* Structures.  A structure is a lattice matrix and a sequence of sites;   *)
(* a site has an element, a tag (props) and three fractional coordinates.  *)
(* Surface, make_supercell_matrix, add_atoms and center belong to the      *)
(* jarvis library: they are represented by fixed tables of their results.  *)

vacuum_interface == 5 * Half    \* main.py:42, 2.5

Site(el, tag, c) == [el |-> el, tag |-> tag, c |-> c]

\* Surface(atoms, indices, thickness, ...).make_surface()
MakeSurface(atoms, indices, thickness) ==
    [atoms |-> atoms, indices |-> indices, thickness |-> thickness]

\* lines 178-201: the supercell of a slab for the matched in-plane vectors
Supercell(surf, sl_vecs) == [surf |-> surf, sl_vecs |-> sl_vecs]

\* lines 210-240: add_atoms tags the substrate supercell's sites "bottom"
\* and the film supercell's sites "top" and orders the sites by element
Assemble(film_scell, subs_scell, seperation) ==
    LET f == film_scell.surf.atoms
        s == subs_scell.surf.atoms
        bottom == [k \in 1..NumAtoms(s) |->
                     Site(Element(s), "bottom",
                          <<(k - 1) * Half + Half \div 5, Half \div 2, Half \div 2>>)]
        top == [k \in 1..NumAtoms(f) |->
                     Site(Element(f), "top",
                          <<(k - 1) * Half, Half, Half + Half \div 2>>)]
        height == film_scell.surf.thickness + subs_scell.surf.thickness
                  + seperation + 2 * vacuum_interface
    IN  [lattice_mat |-> << <<subs_scell.sl_vecs[1] * One, 0, 0>>,
                            <<0, subs_scell.sl_vecs[2] * One, 0>>,
                            <<0, 0, height>> >>,
         sites |-> IF Element(s) = "Al" \/ Element(f) = Element(s)
                   THEN bottom \o top ELSE top \o bottom]

RECURSIVE SumAxis(_, _)
SumAxis(sites, ax) ==
    IF sites = <<>> THEN 0 ELSE Head(sites).c[ax] + SumAxis(Tail(sites), ax)

\* Atoms.center_around_origin(new_origin): translate so that the mean
\* coordinate lands on new_origin
CenterAroundOrigin(st, o) ==
    LET n == Len(st.sites)
        shift == [ax \in 1..3 |-> o[ax] - (SumAxis(st.sites, ax) \div n)]
    IN  [st EXCEPT !.sites =
           [k \in 1..n |-> [st.sites[k] EXCEPT !.c =
               [ax \in 1..3 |-> st.sites[k].c[ax] + shift[ax]]]]]

\* SwapXZ without the two copies: row 0 / column 0 is overwritten before it
\* is read
SwapXZInPlace(st) ==
    [lattice_mat |-> <<st.lattice_mat[1], st.lattice_mat[2], st.lattice_mat[1]>>,
     sites |-> [k \in 1..Len(st.sites) |-> [st.sites[k] EXCEPT !.c =
                   <<st.sites[k].c[1], st.sites[k].c[2], st.sites[k].c[1]>>]]]

\* lines 242-254: exchange lattice rows 0 and 2 and coordinate columns 0 and 2
SwapXZ(st) ==
    [lattice_mat |-> <<st.lattice_mat[3], st.lattice_mat[2], st.lattice_mat[1]>>,
     sites |-> [k \in 1..Len(st.sites) |-> [st.sites[k] EXCEPT !.c =
                   <<st.sites[k].c[3], st.sites[k].c[2], st.sites[k].c[1]>>]]]

\* lines 241-261
RotateXZ(st) == CenterAroundOrigin(SwapXZ(st), <<Half, 0, 0>>)

-----------------------------------------------------------------------------
(* make_interface and get_interface *)

\* the two arguments of the matcher call, lines 137-143: the in-plane
\* lattices of the two slabs
MatcherKey(film_surf, subs_surf) ==
    << <<LatticeClass(film_surf.atoms), film_surf.indices>>,
       <<LatticeClass(subs_surf.atoms), subs_surf.indices>> >>

\* lines 126-321, for a non-empty list of matches
MakeInterface(c, film, subs, seperation, matches) ==
    LET uv1 == matches[1].sub_sl_vecs
        uv2 == matches[1].film_sl_vecs
        film_scell == Supercell(film, uv2)
        subs_scell == Supercell(subs, uv1)
        stacked == Assemble(film_scell, subs_scell, seperation)
        combined == IF c.rotate_xz THEN RotateXZ(stacked) ELSE stacked
    IN  [mismatch_u |-> Mismatch(uv2[1], uv1[1]),
         mismatch_v |-> Mismatch(uv2[2], uv1[2]),
         matches |-> matches,
         film_sl |-> film_scell,
         subs_sl |-> subs_scell,
         lead |-> IF c.lead_ratio # -1
                  THEN LeadPartition(combined.sites, c.lead_ratio)
                  ELSE [raises |-> FALSE],
         interface |-> combined]

\* the exception make_interface ends with, or "none": matches[0] on an
\* empty list (line 153), the count check of the lead partition (line 313)
MakeInterfaceRaises(c, film, subs, seperation, matches) ==
    IF matches = <<>> THEN "IndexError"
    ELSE IF MakeInterface(c, film, subs, seperation, matches).lead.raises
         THEN "ValueError"
         ELSE "none"

\* lines 335-360
GetInterface(c, film_atoms, subs_atoms, film_index, subs_index, film_thickness, subs_thickness, seperation, matches) ==
    LET film_surf == MakeSurface(film_atoms, film_index, film_thickness)
        subs_surf == MakeSurface(subs_atoms, subs_index, subs_thickness)
        het == MakeInterface(c, film_surf, subs_surf, seperation, matches)
    IN  [mismatch_u |-> het.mismatch_u,
         mismatch_v |-> het.mismatch_v,
         matches |-> het.matches,
         film_sl |-> het.film_sl,
         subs_sl |-> het.subs_sl,
         lead |-> het.lead,
         interface |-> het.interface,
         film_surf |-> film_surf,
         subs_surf |-> subs_surf]

GetInterfaceRaises(c, film_atoms, subs_atoms, film_index, subs_index, film_thickness, subs_thickness, seperation, matches) ==
    MakeInterfaceRaises(c,
        MakeSurface(film_atoms, film_index, film_thickness),
        MakeSurface(subs_atoms, subs_index, subs_thickness),
        seperation, matches)

-----------------------------------------------------------------------------
(* Strings *)

Str(n) == ToString(n)

\* "_".join(map(str, s))
RECURSIVE JoinStr(_)
JoinStr(s) ==
    IF s = <<>> THEN ""
    ELSE IF Len(s) = 1 THEN Str(s[1])
    ELSE Str(s[1]) \o "_" \o JoinStr(Tail(s))

\* lines 408-427
InterfaceName(tmp_i, tmp_j, film_index, subs_index, film_thickness, subs_thickness, seperation, dis_tmp) ==
    "Interface-" \o tmp_i \o "_" \o tmp_j \o "_" \o "film_miller_"
    \o JoinStr(film_index) \o "_sub_miller_" \o JoinStr(subs_index)
    \o "_film_thickness_" \o Str(film_thickness)
    \o "_subs_thickness_" \o Str(subs_thickness)
    \o "_seperation_" \o Str(seperation) \o "_" \o "disp_" \o JoinStr(dis_tmp)

\* lines 468-476
FilmSurfaceName(tmp_i, film_index, film_thickness) ==
    "Surface-" \o tmp_i \o "_" \o "film_miller_" \o JoinStr(film_index)
    \o "_film_thickness_" \o Str(film_thickness)

\* lines 477-485
SubsSurfaceName(tmp_j, subs_index, subs_thickness) ==
    "Surface-" \o tmp_j \o "_" \o "subs_miller_" \o JoinStr(subs_index)
    \o "_subs_thickness_" \o Str(subs_thickness)

-----------------------------------------------------------------------------
(* generate() *)

NoLoc == [at |-> "none"]

\* the sizes of the eight nested loops, outermost first (lines 366-373)
Dims(c, grid) ==
    <<Len(c.subs_mats), Len(c.film_mats), Len(c.seperations),
      Len(c.film_indices), Len(c.subs_indices), Len(c.film_thicknesses),
      Len(c.subs_thicknesses), Len(grid)>>

\* the indices of the next iteration of the nest: the innermost loop that
\* has a next element advances and the loops inside it restart; <<>> when
\* the outermost loop is exhausted
RECURSIVE Advance(_, _, _)
Advance(ix, dims, k) ==
    IF k = 0 THEN <<>>
    ELSE IF ix[k] < dims[k] THEN [ix EXCEPT ![k] = @ + 1]
    ELSE Advance([ix EXCEPT ![k] = 1], dims, k - 1)

\* lines 399-402
TmpI(c, ii) == IF c.subs_ids = <<>> THEN Str(ii - 1) ELSE c.subs_ids[ii]

\* lines 404-407: the film id is looked up with the substrate loop's index
TmpJ(c, ii, jj) == IF c.film_ids = <<>> THEN Str(jj - 1) ELSE c.film_ids[ii]

\* list index out of range in lines 402 / 407
IdLookupRaises(c, ii) ==
    \/ c.subs_ids # <<>> /\ ii > Len(c.subs_ids)
    \/ c.film_ids # <<>> /\ ii > Len(c.film_ids)

\* Choose with a comparison that is not strict: a tie keeps info1
ChooseNonStrict(info1, info2) ==
    IF ~ FGreater(MaxMis(info1), MaxMis(info2)) THEN info1 ELSE info2

\* Choose with the comparison turned around
ChooseReversed(info1, info2) ==
    IF FGreater(MaxMis(info1), MaxMis(info2)) THEN info1 ELSE info2

\* lines 463-466
Choose(info1, info2) ==
    IF FGreater(MaxMis(info2), MaxMis(info1)) THEN info1 ELSE info2

\* Displace without the test of the tag
DisplaceAll(sites, dis_tmp) ==
    [k \in 1..Len(sites) |->
        [sites[k] EXCEPT !.c = <<@[1] + dis_tmp[1], @[2] + dis_tmp[2], @[3]>>]]

\* lines 501-507: the rows of ats.frac_coords tagged "bottom" are shifted
Displace(sites, dis_tmp) ==
    [k \in 1..Len(sites) |->
        IF sites[k].tag = "bottom"
        THEN [sites[k] EXCEPT !.c = <<@[1] + dis_tmp[1], @[2] + dis_tmp[2], @[3]>>]
        ELSE sites[k]]

\* generate() is entered: lines 363-365 and the first iteration of the nest.
\* The caller calls it on a new object, or once more on the object whose
\* generate() has returned.
Generate ==
    /\ pc = "idle" \/ (pc = "done" /\ Len(runs) < 2)
    /\ gen_intfs' = <<>>
    /\ loc' = NoLoc
    /\ IF \E k \in 1..8 : Dims(cfg, xy)[k] = 0
       THEN /\ pc' = "return"
            /\ idx' = <<>>
       ELSE /\ pc' = "point"
            /\ idx' = [k \in 1..8 |-> 1]
    /\ UNCHANGED <<cfg, xy, generated_interfaces, err, zsl, shares_coords,
                   runs, arg, res>>

\* lines 374-427: the values of the grid point are rounded (the displacement
\* in place, in self.xy) and the name is composed
ComposeName ==
    /\ pc = "point"
    /\ LET ii == idx[1]
           jj == idx[2]
           film_thickness == Round(cfg.film_thicknesses[idx[6]])
           subs_thickness == Round(cfg.subs_thicknesses[idx[7]])
           seperation == Round(cfg.seperations[idx[3]])
           dis_tmp == <<Round(xy[idx[8]][1]), Round(xy[idx[8]][2])>>
       IN  /\ xy' = [xy EXCEPT ![idx[8]] = dis_tmp]
           /\ IF IdLookupRaises(cfg, ii)
              THEN /\ pc' = "raised"
                   /\ err' = "IndexError"
                   /\ loc' = loc
              ELSE /\ pc' = "build1"
                   /\ err' = err
                   /\ loc' = [at |-> "named",
                              film_thickness |-> film_thickness,
                              subs_thickness |-> subs_thickness,
                              seperation |-> seperation,
                              dis_tmp |-> dis_tmp,
                              tmp_i |-> TmpI(cfg, ii),
                              tmp_j |-> TmpJ(cfg, ii, jj),
                              name |-> InterfaceName(TmpI(cfg, ii),
                                          TmpJ(cfg, ii, jj),
                                          cfg.film_indices[idx[4]],
                                          cfg.subs_indices[idx[5]],
                                          film_thickness, subs_thickness,
                                          seperation, dis_tmp)]
    /\ UNCHANGED <<cfg, generated_interfaces, idx, gen_intfs, zsl,
                   shares_coords, runs, arg, res>>

\* Build with the call wrapped in try/except: a failed grid point is skipped
BuildSkipping(at, next, field, film_atoms, subs_atoms) ==
    /\ pc = at
    /\ LET film_index == cfg.film_indices[idx[4]]
           subs_index == cfg.subs_indices[idx[5]]
           key == MatcherKey(
                     MakeSurface(film_atoms, film_index, loc.film_thickness),
                     MakeSurface(subs_atoms, subs_index, loc.subs_thickness))
       IN  \E matches \in Matches :
             /\ key \in DOMAIN zsl => matches = zsl[key]
             /\ zsl' = [k \in DOMAIN zsl \cup {key} |->
                           IF k = key THEN matches ELSE zsl[k]]
             /\ LET e == GetInterfaceRaises(cfg, film_atoms, subs_atoms,
                            film_index, subs_index, loc.film_thickness,
                            loc.subs_thickness, loc.seperation, matches)
                    nxt == Advance(idx, Dims(cfg, xy), 8)
                IN  IF e # "none"
                    THEN /\ pc' = IF nxt = <<>> THEN "return" ELSE "point"
                         /\ idx' = nxt
                         /\ err' = err
                         /\ loc' = NoLoc
                    ELSE /\ pc' = next
                         /\ idx' = idx
                         /\ err' = err
                         /\ loc' = [k \in DOMAIN loc \cup {field} |->
                                      IF k = field
                                      THEN GetInterface(cfg, film_atoms,
                                             subs_atoms, film_index, subs_index,
                                             loc.film_thickness,
                                             loc.subs_thickness,
                                             loc.seperation, matches)
                                      ELSE loc[k]]
    /\ UNCHANGED <<cfg, xy, generated_interfaces, gen_intfs,
                   shares_coords, runs, arg, res>>

\* one get_interface call of the loop body: the matcher answers (the same
\* answer as before for the same two lattices), then either the call
\* raises and the exception leaves generate(), or info is stored
Build(at, next, field, film_atoms, subs_atoms) ==
    /\ pc = at
    /\ LET film_index == cfg.film_indices[idx[4]]
           subs_index == cfg.subs_indices[idx[5]]
           key == MatcherKey(
                     MakeSurface(film_atoms, film_index, loc.film_thickness),
                     MakeSurface(subs_atoms, subs_index, loc.subs_thickness))
       IN  \E matches \in Matches :
             /\ key \in DOMAIN zsl => matches = zsl[key]
             /\ zsl' = [k \in DOMAIN zsl \cup {key} |->
                           IF k = key THEN matches ELSE zsl[k]]
             /\ LET e == GetInterfaceRaises(cfg, film_atoms, subs_atoms,
                            film_index, subs_index, loc.film_thickness,
                            loc.subs_thickness, loc.seperation, matches)
                IN  IF e # "none"
                    THEN /\ pc' = "raised"
                         /\ err' = e
                         /\ loc' = loc
                    ELSE /\ pc' = next
                         /\ err' = err
                         /\ loc' = [k \in DOMAIN loc \cup {field} |->
                                      IF k = field
                                      THEN GetInterface(cfg, film_atoms,
                                             subs_atoms, film_index, subs_index,
                                             loc.film_thickness,
                                             loc.subs_thickness,
                                             loc.seperation, matches)
                                      ELSE loc[k]]
    /\ UNCHANGED <<cfg, xy, generated_interfaces, idx, gen_intfs,
                   shares_coords, runs, arg, res>>

\* lines 431-446: film_atoms=i, subs_atoms=j
Build1 ==
    Build("build1", "build2", "info1",
          cfg.subs_mats[idx[1]], cfg.film_mats[idx[2]])

\* lines 448-462: film_atoms=j, subs_atoms=i
Build2 ==
    Build("build2", "emit", "info2",
          cfg.film_mats[idx[2]], cfg.subs_mats[idx[1]])

\* lines 463-526: the record of the grid point.  Fields h_* are history:
\* the grid point, the direction taken, the other direction's info and
\* the chosen structure as make_interface returned it.
Record(c, ix, l, shared) ==
    LET chosen_info == Choose(l.info1, l.info2)
        ats == chosen_info.interface
        moved == Displace(ats.sites, l.dis_tmp)
        new_intf == [ats EXCEPT !.sites = moved]
    IN  [mismatch_u |-> chosen_info.mismatch_u,
         mismatch_v |-> chosen_info.mismatch_v,
         matches |-> chosen_info.matches,
         film_sl |-> chosen_info.film_sl,
         subs_sl |-> chosen_info.subs_sl,
         lead |-> chosen_info.lead,
         film_surf |-> chosen_info.film_surf,
         subs_surf |-> chosen_info.subs_surf,
         interface_name |-> l.name,
         film_surface_name |->
             FilmSurfaceName(l.tmp_i, c.film_indices[ix[4]], l.film_thickness),
         subs_surface_name |->
             SubsSurfaceName(l.tmp_j, c.subs_indices[ix[5]], l.subs_thickness),
         generated_interface |-> new_intf,
         \* line 523 runs after the rows of ats.frac_coords were edited
         interface |-> IF shared THEN new_intf ELSE ats,
         h_point |-> ix,
         h_dis |-> l.dis_tmp,
         h_direction |-> IF chosen_info = l.info1 THEN 1 ELSE 2,
         h_info1 |-> [mismatch_u |-> l.info1.mismatch_u,
                      mismatch_v |-> l.info1.mismatch_v],
         h_info2 |-> [mismatch_u |-> l.info2.mismatch_u,
                      mismatch_v |-> l.info2.mismatch_v],
         h_assembled |-> ats]

Emit ==
    /\ pc = "emit"
    /\ gen_intfs' = Append(gen_intfs, Record(cfg, idx, loc, shares_coords))
    /\ loc' = NoLoc
    /\ LET nxt == Advance(idx, Dims(cfg, xy), 8)
       IN  /\ idx' = nxt
           /\ pc' = IF nxt = <<>> THEN "return" ELSE "point"
    /\ UNCHANGED <<cfg, xy, generated_interfaces, err, zsl, shares_coords,
                   runs, arg, res>>

\* what the caller keeps of a returned list: per record the name, the
\* grid point, the displacement and the materials of the chosen direction
Summary(recs) ==
    [k \in 1..Len(recs) |->
        [interface_name |-> recs[k].interface_name,
         h_point |-> recs[k].h_point,
         h_dis |-> recs[k].h_dis,
         film_atoms |-> recs[k].film_surf.atoms,
         subs_atoms |-> recs[k].subs_surf.atoms]]

\* Return with the records added to the list the object already holds
ReturnExtending ==
    /\ pc = "return"
    /\ generated_interfaces' = generated_interfaces \o gen_intfs
    /\ runs' = Append(runs, [cfg |-> cfg, out |-> Summary(gen_intfs)])
    /\ pc' = "done"
    /\ UNCHANGED <<cfg, xy, idx, gen_intfs, loc, err, zsl, shares_coords,
                   arg, res>>

\* lines 530-531
Return ==
    /\ pc = "return"
    /\ generated_interfaces' = gen_intfs
    /\ runs' = Append(runs, [cfg |-> cfg, out |-> Summary(gen_intfs)])
    /\ pc' = "done"
    /\ UNCHANGED <<cfg, xy, idx, gen_intfs, loc, err, zsl, shares_coords,
                   arg, res>>

\* the caller constructs a second InterfaceCombi with the two material
\* lists (and their ids) exchanged and every other argument the same; no
\* third object is constructed
Swapped(c) ==
    [c EXCEPT !.subs_mats = c.film_mats, !.film_mats = c.subs_mats,
              !.subs_ids = c.film_ids, !.film_ids = c.subs_ids]

ConstructSwapped ==
    /\ pc = "done"
    /\ Len(runs) < 2
    /\ cfg' = Swapped(cfg)
    /\ xy' = DisplacementGrid(cfg.disp_intvl)
    /\ generated_interfaces' = <<>>
    /\ pc' = "idle"
    /\ idx' = <<>>
    /\ gen_intfs' = <<>>
    /\ loc' = NoLoc
    /\ UNCHANGED <<err, zsl, shares_coords, runs, arg, res>>

Init ==
    /\ cfg \in Cfgs
    /\ xy = DisplacementGrid(cfg.disp_intvl)
    /\ generated_interfaces = <<>>
    /\ pc = "idle"
    /\ idx = <<>>
    /\ gen_intfs = <<>>
    /\ loc = NoLoc
    /\ err = "none"
    /\ zsl = <<>>
    /\ shares_coords \in BOOLEAN
    /\ runs = <<>>
    /\ arg = <<>>
    /\ res = <<>>

Next ==
    \/ Generate
    \/ ComposeName
    \/ Build1
    \/ Build2
    \/ Emit
    \/ Return
    \/ ConstructSwapped

Spec == Init /\ [][Next]_vars

-----------------------------------------------------------------------------
(* The constructor on its own: __init__ with a displacement step *)

GridSteps == {(k * One) \div 24 : k \in 0..MaxStep}

InitGrid ==
    /\ cfg \in {[Default EXCEPT !.disp_intvl = d] : d \in GridSteps}
    /\ xy = <<>>
    /\ generated_interfaces = <<>>
    /\ pc = "new"
    /\ idx = <<>>
    /\ gen_intfs = <<>>
    /\ loc = NoLoc
    /\ err = "none"
    /\ zsl = <<>>
    /\ shares_coords = FALSE
    /\ runs = <<>>
    /\ arg = <<>>
    /\ res = <<>>

\* lines 57-103
Construct ==
    /\ pc = "new"
    /\ xy' = DisplacementGrid(cfg.disp_intvl)
    /\ generated_interfaces' = <<>>
    /\ pc' = "idle"
    /\ UNCHANGED <<cfg, idx, gen_intfs, loc, err, zsl, shares_coords, runs,
                   arg, res>>

NextGrid == Construct

SpecGrid == InitGrid /\ [][NextGrid]_vars

-----------------------------------------------------------------------------
(* The lead partition on its own: lines 262-319 for given coordinates *)

LeadXs == {(k * One) \div 10 : k \in -1..11}

LeadSites ==
    UNION { [1..n -> {Site("Al", "", <<x, 0, 0>>) : x \in LeadXs}] :
              n \in 0..MaxSites }

InitLead ==
    /\ arg \in { [sites |-> st, lead_ratio |-> (k * One) \div 10] :
                   st \in LeadSites, k \in 0..4 }
    /\ res = <<>>
    /\ pc = "lead"
    /\ cfg = Default
    /\ xy = DisplacementGrid(0)
    /\ generated_interfaces = <<>>
    /\ idx = <<>>
    /\ gen_intfs = <<>>
    /\ loc = NoLoc
    /\ err = "none"
    /\ zsl = <<>>
    /\ shares_coords = FALSE
    /\ runs = <<>>

Partition ==
    /\ pc = "lead"
    /\ res' = LeadPartition(arg.sites, arg.lead_ratio)
    /\ pc' = IF res'.raises THEN "raised" ELSE "returned"
    /\ err' = IF res'.raises THEN "ValueError" ELSE err
    /\ UNCHANGED <<cfg, xy, generated_interfaces, idx, gen_intfs, loc, zsl,
                   shares_coords, runs, arg>>

NextLead == Partition

SpecLead == InitLead /\ [][NextLead]_vars

-----------------------------------------------------------------------------
(* The axis exchange on its own: lines 242-254 applied to a structure, and *)
(* applied again to its result                                             *)

SwapRows == {<<One, 0, 0>>, <<0, 0, 3 * One>>, <<Half, 0, One>>}

SwapCoords == {<<x, y, z>> : x \in {0, Half \div 2}, y \in {0, Half \div 2}, z \in {0, Half}}

SwapSites ==
    UNION { [1..n -> {Site("Al", IF c[3] = 0 THEN "bottom" ELSE "top", c) :
                        c \in SwapCoords}] : n \in 0..MaxSites }

InitSwap ==
    /\ arg \in { [lattice_mat |-> <<l[1], <<0, One, 0>>, l[2]>>, sites |-> st] :
                   l \in SwapRows \X SwapRows, st \in SwapSites }
    /\ res = <<>>
    /\ pc = "swap0"
    /\ cfg = [Default EXCEPT !.rotate_xz = TRUE]
    /\ xy = DisplacementGrid(0)
    /\ generated_interfaces = <<>>
    /\ idx = <<>>
    /\ gen_intfs = <<>>
    /\ loc = NoLoc
    /\ err = "none"
    /\ zsl = <<>>
    /\ shares_coords = FALSE
    /\ runs = <<>>

Exchange ==
    /\ pc \in {"swap0", "swap1"}
    /\ res' = SwapXZ(IF pc = "swap0" THEN arg ELSE res)
    /\ pc' = IF pc = "swap0" THEN "swap1" ELSE "swap2"
    /\ UNCHANGED <<cfg, xy, generated_interfaces, idx, gen_intfs, loc, err, zsl,
                   shares_coords, runs, arg>>

NextSwap == Exchange

SpecSwap == InitSwap /\ [][NextSwap]_vars

-----------------------------------------------------------------------------
(* Properties *)

\* the values of a record's grid point, as the loops of generate() see them
PointSubs(r) == cfg.subs_mats[r.h_point[1]]
PointFilm(r) == cfg.film_mats[r.h_point[2]]
PointKey(r) ==
    <<PointSubs(r), PointFilm(r),
      cfg.film_indices[r.h_point[4]], cfg.subs_indices[r.h_point[5]],
      Round(cfg.film_thicknesses[r.h_point[6]]),
      Round(cfg.subs_thicknesses[r.h_point[7]]),
      Round(cfg.seperations[r.h_point[3]]), r.h_dis>>

\* the larger of the two absolute in-plane mismatches
WorstAxis(m) ==
    IF FGreater(FAbs(m.mismatch_v), FAbs(m.mismatch_u))
    THEN FAbs(m.mismatch_v) ELSE FAbs(m.mismatch_u)

LexLess(p, q) ==
    \E i \in 1..8 : p[i] < q[i] /\ \A j \in 1..(i - 1) : p[j] = q[j]

\* C1: the name of every record carries the id of its own substrate material
\* (subs_ids[ii], else str(ii)) and of its own film material (film_ids[jj],
\* else str(jj)).
C1_NameEncodesOwnMaterials ==
    \A k \in 1..Len(gen_intfs) :
        LET r == gen_intfs[k]
            ii == r.h_point[1]
            jj == r.h_point[2]
        IN  r.interface_name =
              InterfaceName(
                IF cfg.subs_ids # <<>> THEN cfg.subs_ids[ii] ELSE Str(ii - 1),
                IF cfg.film_ids # <<>> THEN cfg.film_ids[jj] ELSE Str(jj - 1),
                cfg.film_indices[r.h_point[4]], cfg.subs_indices[r.h_point[5]],
                Round(cfg.film_thicknesses[r.h_point[6]]),
                Round(cfg.subs_thicknesses[r.h_point[7]]),
                Round(cfg.seperations[r.h_point[3]]), r.h_dis)

\* C2: two records of one run whose grid points differ in a material, a
\* Miller index or a rounded thickness, separation or displacement have
\* different names (the supplied ids being pairwise distinct).
C2_NamesCollisionFree ==
    \A k, l \in 1..Len(gen_intfs) :
        PointKey(gen_intfs[k]) # PointKey(gen_intfs[l])
        => gen_intfs[k].interface_name # gen_intfs[l].interface_name

\* C3: when the matcher finds a match wherever it is asked, generate()
\* returns one record per element of the product of the eight axes, in the
\* order of the loop nest.
C3_ReturnsFullProduct ==
    /\ pc = "raised" => \E key \in DOMAIN zsl : zsl[key] = <<>>
    /\ pc = "done" =>
         /\ Len(generated_interfaces) = Product(Dims(cfg, xy))
         /\ \A k, l \in 1..Len(generated_interfaces) :
              k < l => LexLess(generated_interfaces[k].h_point,
                               generated_interfaces[l].h_point)

\* C4: every record was built in both directions and its own worst-axis
\* mismatch is not greater than that of the direction that was dropped.
C4_ChosenNotWorse ==
    \A k \in 1..Len(gen_intfs) :
        LET r == gen_intfs[k]
            kept == IF r.h_direction = 1 THEN r.h_info1 ELSE r.h_info2
            dropped == IF r.h_direction = 1 THEN r.h_info2 ELSE r.h_info1
        IN  /\ kept = [mismatch_u |-> r.mismatch_u, mismatch_v |-> r.mismatch_v]
            /\ ~ FGreater(WorstAxis(r), WorstAxis(dropped))

C4_Witness ==
    \E k \in 1..Len(gen_intfs) :
        /\ gen_intfs[k].h_direction = 1
        /\ FGreater(WorstAxis(gen_intfs[k].h_info2),
                    WorstAxis(gen_intfs[k]))

\* C5: a run with A among the substrates and B among the films and a run
\* with the two lists exchanged choose the same direction for the pair:
\* the same material is the film and the same material the substrate.
C5_SelectionCommutes ==
    Len(runs) >= 2 /\ runs[2].cfg = Swapped(runs[1].cfg) =>
        \A k \in 1..Len(runs[1].out), l \in 1..Len(runs[2].out) :
            LET p == runs[1].out[k]
                q == runs[2].out[l]
            IN  q.h_point = [p.h_point EXCEPT ![1] = p.h_point[2],
                                              ![2] = p.h_point[1]]
                => /\ p.film_atoms = q.film_atoms
                   /\ p.subs_atoms = q.subs_atoms

\* C6: in generated_interface the sites tagged "bottom" are the assembled
\* sites moved by the rounded (dx, dy) of the grid point in their first two
\* coordinates; every other site, the lattice, and the number, order,
\* elements and tags of the sites are those of the assembled structure.
C6_OnlyBottomShifted ==
    \A k \in 1..Len(gen_intfs) :
        LET r == gen_intfs[k]
            new == r.generated_interface
            old == r.h_assembled
            g == DisplacementGrid(cfg.disp_intvl)[r.h_point[8]]
            dx == Round(g[1])
            dy == Round(g[2])
        IN  /\ new.lattice_mat = old.lattice_mat
            /\ Len(new.sites) = Len(old.sites)
            /\ \A n \in 1..Len(old.sites) :
                 /\ new.sites[n].el = old.sites[n].el
                 /\ new.sites[n].tag = old.sites[n].tag
                 /\ new.sites[n].c[3] = old.sites[n].c[3]
                 /\ IF old.sites[n].tag = "bottom"
                    THEN /\ new.sites[n].c[1] = old.sites[n].c[1] + dx
                         /\ new.sites[n].c[2] = old.sites[n].c[2] + dy
                    ELSE new.sites[n].c = old.sites[n].c

C6_Witness ==
    \E k \in 1..Len(gen_intfs) :
        /\ gen_intfs[k].h_dis[1] # 0
        /\ gen_intfs[k].h_dis[2] # 0
        /\ \E n \in 1..Len(gen_intfs[k].h_assembled.sites) :
             gen_intfs[k].h_assembled.sites[n].tag = "bottom"
        /\ \E n \in 1..Len(gen_intfs[k].h_assembled.sites) :
             gen_intfs[k].h_assembled.sites[n].tag = "top"

\* C7: the 'interface' entry of every record is the assembled structure as
\* it was before the displacement was applied.
C7_InterfaceKeepsAssembled ==
    \A k \in 1..Len(gen_intfs) :
        gen_intfs[k].interface = gen_intfs[k].h_assembled

\* C8: for a lead ratio in [0, 0.5) the left, right and middle regions
\* hold every site exactly once: the counts add up to the number of sites,
\* the count check does not raise, and each site lies in the region its
\* first coordinate belongs to.
C8_PartitionComplete ==
    pc # "lead" =>
        LET r == arg.lead_ratio
            Occ(q, v) == Cardinality({n \in 1..Len(q) : q[n] = v})
        IN  /\ pc = "returned"
            /\ ~ res.raises
            /\ Len(res.atoms_left) + Len(res.atoms_middle)
                 + Len(res.atoms_right) = Len(arg.sites)
            /\ \A n \in 1..Len(arg.sites) :
                 LET v == arg.sites[n]
                 IN  /\ Occ(res.atoms_left, v) + Occ(res.atoms_middle, v)
                          + Occ(res.atoms_right, v) = Occ(arg.sites, v)
                     /\ Occ(res.atoms_left, v) > 0 => v.c[1] < r
                     /\ Occ(res.atoms_right, v) > 0 => v.c[1] > Half + r
                     /\ Occ(res.atoms_middle, v) > 0
                          => v.c[1] >= r /\ v.c[1] <= Half + r

C8_Witness ==
    /\ pc = "returned"
    /\ Len(arg.sites) = 2
    /\ arg.sites[1].c[1] = arg.lead_ratio
    /\ arg.sites[2].c[1] = Half + arg.lead_ratio
    /\ Len(res.atoms_middle) = 2

\* C9: the constructed grid is the single offset (0,0) for step 0; for a
\* step d > 0 it is the row-major mesh of the values -0.5+d, -0.5+2d, ...
\* below 0.5+d on both axes, ceil(1/d) values per axis; 2x2 over {0, 0.5}
\* for d = 0.5.
C9_GridShape ==
    pc = "idle" =>
        LET d == cfg.disp_intvl
        IN  IF d = 0 THEN xy = << <<0, 0>> >>
            ELSE /\ \E n \in 1..Len(xy) :
                      /\ (n - 1) * d < One
                      /\ n * d >= One
                      /\ Len(xy) = n * n
                      /\ \A a, b \in 1..n :
                           /\ xy[(a - 1) * n + b] = <<a * d - Half, b * d - Half>>
                           /\ a * d - Half < Half + d
                 /\ d = Half => xy = << <<0, 0>>, <<0, Half>>,
                                        <<Half, 0>>, <<Half, Half>> >>

C9_Witness ==
    /\ pc = "idle"
    /\ cfg.disp_intvl = Half
    /\ Len(xy) = 4

\* C10: once the matcher has answered with an empty list, generate() has
\* ended with the IndexError of that call: no record exists for the grid
\* point, and every record kept had a match.
C10_EmptyMatchPropagates ==
    /\ (\E key \in DOMAIN zsl : zsl[key] = <<>>) =>
          /\ pc = "raised"
          /\ err = "IndexError"
          /\ \A k \in 1..Len(gen_intfs) : gen_intfs[k].h_point # idx
    /\ \A k \in 1..Len(gen_intfs) : gen_intfs[k].matches # <<>>

C10_Witness ==
    /\ pc = "raised"
    /\ \E key \in DOMAIN zsl : zsl[key] = <<>>
    /\ "info1" \in DOMAIN loc
    /\ Len(gen_intfs) >= 1
    /\ generated_interfaces = <<>>

\* C12: one exchange swaps lattice rows 0 and 2 and coordinate columns 0 and
\* 2 of every site and leaves row 1, column 1, the elements and the tags as
\* they were; a second exchange gives back the original lattice matrix and
\* the original coordinates of every site.
C12_SwapIsInvolution ==
    /\ pc = "swap1" =>
          /\ res.lattice_mat[1] = arg.lattice_mat[3]
          /\ res.lattice_mat[3] = arg.lattice_mat[1]
          /\ res.lattice_mat[2] = arg.lattice_mat[2]
          /\ Len(res.sites) = Len(arg.sites)
          /\ \A n \in 1..Len(arg.sites) :
                /\ res.sites[n].c[1] = arg.sites[n].c[3]
                /\ res.sites[n].c[3] = arg.sites[n].c[1]
                /\ res.sites[n].c[2] = arg.sites[n].c[2]
                /\ res.sites[n].el = arg.sites[n].el
                /\ res.sites[n].tag = arg.sites[n].tag
    /\ pc = "swap2" =>
          /\ res.lattice_mat = arg.lattice_mat
          /\ Len(res.sites) = Len(arg.sites)
          /\ \A n \in 1..Len(arg.sites) : res.sites[n] = arg.sites[n]

C12_Witness ==
    /\ pc = "swap2"
    /\ arg.lattice_mat[1] # arg.lattice_mat[3]
    /\ Len(arg.sites) = 2
    /\ \E n \in 1..Len(arg.sites) : arg.sites[n].c[1] # arg.sites[n].c[3]
    /\ res = arg

\* C13: generate() leaves its inputs as the constructor set them: self.xy is
\* the constructed grid and the sweep lists are the constructed lists after
\* any number of calls, and a second generate() on the same object returns
\* the names and displacements of the first.
C13_InputsNotUpdated ==
    /\ xy = DisplacementGrid(cfg.disp_intvl)
    /\ \A k \in 1..Len(runs) :
          /\ runs[k].cfg.seperations = cfg.seperations
          /\ runs[k].cfg.film_thicknesses = cfg.film_thicknesses
          /\ runs[k].cfg.subs_thicknesses = cfg.subs_thicknesses
          /\ runs[k].cfg.film_indices = cfg.film_indices
          /\ runs[k].cfg.subs_indices = cfg.subs_indices
    /\ \A k, l \in 1..Len(runs) :
          runs[k].cfg = runs[l].cfg =>
             /\ Len(runs[k].out) = Len(runs[l].out)
             /\ \A n \in 1..Len(runs[k].out) :
                   /\ runs[k].out[n].interface_name = runs[l].out[n].interface_name
                   /\ runs[k].out[n].h_dis = runs[l].out[n].h_dis

\* C14: the first-built direction (the subs_mats element as film_atoms, the
\* film_mats element as subs_atoms) is the record's direction exactly when
\* its worst-axis mismatch is strictly smaller than that of the second-built
\* direction; on a tie the record is the second-built direction.
C14_TieKeepsSecondBuilt ==
    \A k \in 1..Len(gen_intfs) :
        LET r == gen_intfs[k]
            m1 == WorstAxis(r.h_info1)
            m2 == WorstAxis(r.h_info2)
        IN  /\ r.h_direction = 1 <=> FGreater(m2, m1)
            /\ (~ FGreater(m1, m2) /\ ~ FGreater(m2, m1)) => r.h_direction = 2
            /\ r.h_direction = 1 =>
                  /\ r.film_surf.atoms = PointSubs(r)
                  /\ r.subs_surf.atoms = PointFilm(r)
            /\ r.h_direction = 2 =>
                  /\ r.film_surf.atoms = PointFilm(r)
                  /\ r.subs_surf.atoms = PointSubs(r)

C14_Witness ==
    \E k \in 1..Len(gen_intfs) :
        LET r == gen_intfs[k]
        IN  /\ ~ FGreater(WorstAxis(r.h_info1), WorstAxis(r.h_info2))
            /\ ~ FGreater(WorstAxis(r.h_info2), WorstAxis(r.h_info1))
            /\ FGreater(WorstAxis(r.h_info1), Frac(0, 1))
            /\ r.h_info1 # r.h_info2
            /\ r.h_direction = 2
            /\ r.film_surf.atoms = PointFilm(r)

\* what the object held when the current (or last) generate() was entered:
\* nothing on a new object, the records of the previous call otherwise
StoredBefore ==
    IF pc = "done" THEN Summary(gen_intfs)
    ELSE IF runs = <<>> \/ runs[Len(runs)].cfg # cfg THEN <<>>
    ELSE runs[Len(runs)].out

\* C15: while generate() runs and after it has raised,
\* self.generated_interfaces is what it was before the call, whatever the
\* call has completed so far; once the call has returned it is the list of
\* that call alone.
C15_StoredOnlyOnReturn ==
    /\ pc # "done" => Summary(generated_interfaces) = StoredBefore
    /\ pc = "done" => generated_interfaces = gen_intfs

C15_Witness ==
    /\ pc = "raised"
    /\ Len(gen_intfs) >= 1
    /\ Len(runs) = 1
    /\ generated_interfaces = <<>>

\* the identifier of a material of a record's grid point: subs_ids[ii] (else
\* str(ii)) for the subs_mats element, film_ids[jj] (else str(jj)) for the
\* film_mats element
MaterialId(r, m) ==
    IF m = PointSubs(r)
    THEN (IF cfg.subs_ids # <<>> THEN cfg.subs_ids[r.h_point[1]]
          ELSE Str(r.h_point[1] - 1))
    ELSE (IF cfg.film_ids # <<>> THEN cfg.film_ids[r.h_point[2]]
          ELSE Str(r.h_point[2] - 1))

\* C16: in every record 'film_surface_name' carries the identifier of the
\* material of the record's 'film_surf' and 'subs_surface_name' that of the
\* material of its 'subs_surf', whichever direction was chosen.
C16_SurfaceNamesFollowChoice ==
    \A k \in 1..Len(gen_intfs) :
        LET r == gen_intfs[k]
        IN  /\ r.film_surface_name =
                  FilmSurfaceName(MaterialId(r, r.film_surf.atoms),
                                  r.film_surf.indices, r.film_surf.thickness)
            /\ r.subs_surface_name =
                  SubsSurfaceName(MaterialId(r, r.subs_surf.atoms),
                                  r.subs_surf.indices, r.subs_surf.thickness)

====
